---- MODULE Spec2Model ----
(***************************************************************************)
(* Model of jmeter_server.py: the request path run_jmeter and its two tool *)
(* wrappers.  One request is in flight at a time: run_jmeter is a          *)
(* coroutine without any await, and subprocess.run blocks the event loop.  *)
(* Text values are TLA+ strings; an Optional[str] is a sequence of length  *)
(* zero (None) or one.                                                     *)
(***************************************************************************)
EXTENDS Integers, Sequences, FiniteSets, TLC

\* Seconds of wall-clock time the model lets pass (datetime.now() is read
\* only by generate_unique_id).
MaxClock == 1

None == <<>>
Some(s) == <<s>>
IsNone(x) == x = <<>>

----------------------------------------------------------------------------
(* pathlib, on strings *)

RECURSIVE LastIndexOf(_, _, _)
\* str.rfind, 1-based, 0 when absent; scans s[1..i] from the right
LastIndexOf(s, c, i) ==
    IF i = 0 THEN 0
    ELSE IF SubSeq(s, i, i) = c THEN i
    ELSE LastIndexOf(s, c, i - 1)

\* PurePath.name: the final path component
Name(p) == SubSeq(p, LastIndexOf(p, "/", Len(p)) + 1, Len(p))

\* PurePath.suffix: name[i:] where i = name.rfind('.') and 0 < i < len(name) - 1
Suffix(p) ==
    LET n == Name(p)
        i == LastIndexOf(n, ".", Len(n))
    IN  IF 1 < i /\ i < Len(n) THEN SubSeq(n, i, Len(n)) ELSE ""

\* PurePath.stem: name[:i] under the same condition, else the whole name
Stem(p) ==
    LET n == Name(p)
        i == LastIndexOf(n, ".", Len(n))
    IN  IF 1 < i /\ i < Len(n) THEN SubSeq(n, 1, i - 1) ELSE n

\* The file system the server runs in: working directory, files, symlinks.
Cwd == "/w"
Files == {"/w/plan.jmx", "/x/plan.jmx", "/w/notes.txt", "/w/PLAN.JMX"}
Symlinks == [l \in {"/w/link.txt", "/w/alias.jmx"} |->
                IF l = "/w/link.txt" THEN "/x/plan.jmx" ELSE "/w/notes.txt"]

IsAbsolute(p) == Len(p) > 0 /\ SubSeq(p, 1, 1) = "/"

\* Path(p).resolve(): made absolute against the working directory, symlinks
\* followed (non-strict: a missing path resolves to its absolute form)
Resolve(p) ==
    LET a == IF IsAbsolute(p) THEN p ELSE Cwd \o "/" \o p
    IN  IF a \in DOMAIN Symlinks THEN Symlinks[a] ELSE a

\* Path.exists() of a resolved path
Exists(p) == p \in Files

----------------------------------------------------------------------------
(* inputs *)

TestFiles == {"plan.jmx", "/x/plan.jmx", "/w/link.txt", "missing.jmx",
              "/w/notes.txt", "/w/PLAN.JMX", "/w/alias.jmx"}
PropertyChoices == {None, Some(<< <<"threads", "10">>, <<"rampup", "5">> >>)}
ReportDirChoices == {None, Some(""), Some("out")}
LogFileChoices == {None, Some("run.jtl")}
RandomIds == {"0f9e8d7c", "a1b2c3d4"}
Outcomes == [returncode : {0, 1}, stdout : {"", "OK"}, stderr : {"", "boom"}]

\* os.environ after load_dotenv(): JMETER_BIN unset, or set
NoEnv == [k \in {} |-> ""]
Environments == {NoEnv, [k \in {"JMETER_BIN"} |-> "/opt/jmeter/bin/jmeter"]}

VARIABLES
    env,                \* process environment (never written by the server)
    clock,              \* last wall-clock second observed
    state,              \* position of the request in run_jmeter
    req,                \* arguments of run_jmeter
    test_file_path,     \* local: resolved test file
    cmd,                \* local: argument vector
    log_file,           \* local: Optional log file name
    report_output_dir,  \* local: Optional report directory name
    unique_id,          \* local: Optional, set once generate_unique_id ran
    drawn,              \* the clock reading and random part unique_id was made of
    uid_calls,          \* calls of generate_unique_id in this request
    launcher_calls,     \* calls of subprocess.run / subprocess.Popen
    spawned,            \* processes actually started in this request
    proc,               \* the process started by this request
    result,             \* Optional value returned to the caller
    escaped,            \* an exception left run_jmeter
    prev                \* Optional artifacts of the immediately preceding request

vars == <<env, clock, state, req, test_file_path, cmd, log_file,
          report_output_dir, unique_id, drawn, uid_calls, launcher_calls,
          spawned, proc, result, escaped, prev>>

Terminal == {"Rejected", "SpawnFailed", "Detached", "NonZeroExit", "ZeroExit"}
Built == {"Spawning", "Awaiting"} \cup (Terminal \ {"Rejected"})

NoProc == [status |-> "none", returncode |-> 0, stdout |-> "", stderr |-> ""]
NoReq == [test_file |-> "", non_gui |-> TRUE, properties |-> None,
          generate_report |-> FALSE, report_output_dir |-> None,
          log_file |-> None]

----------------------------------------------------------------------------
(* generate_unique_id *)

Digits == <<"0", "1", "2", "3", "4", "5", "6", "7", "8", "9">>
TwoDigits(n) == Digits[((n \div 10) % 10) + 1] \o Digits[(n % 10) + 1]

\* datetime.strftime("%Y%m%d_%H%M%S") of second t of the day the server runs
strftime(t) ==
    "20240101_" \o TwoDigits((t \div 3600) % 24) \o TwoDigits((t \div 60) % 60)
                \o TwoDigits(t % 60)

\* variant: the timestamp formatted to the day only
generate_unique_id_DateOnly(d) == "20240101" \o "_" \o d.uuid

\* d = [now, uuid]: the clock reading and the first 8 characters of uuid4()
generate_unique_id(d) == strftime(d.now) \o "_" \o d.uuid

----------------------------------------------------------------------------
(* run_jmeter: validation *)

\* variant: the suffix compared without regard to case
SuffixOK_AnyCase(p) == Suffix(p) \in {".jmx", ".JMX"}

SuffixOK(p) == Suffix(p) = ".jmx"

NotFoundMessage(test_file) == "Error: Test file not found: " \o test_file
InvalidTypeMessage(test_file) ==
    "Error: Invalid file type. Expected .jmx file: " \o test_file

----------------------------------------------------------------------------
(* run_jmeter: building the argument vector *)

getenv(k, default) == IF k \in DOMAIN env THEN env[k] ELSE default

\* cmd = [str(Path(jmeter_bin).resolve())]
BinaryToken(jmeter_bin) == Resolve(jmeter_bin)

ModeFlag(non_gui) == IF non_gui THEN <<"-n">> ELSE <<>>

RECURSIVE PropertyTokens(_)
PropertyTokens(items) ==
    IF items = <<>> THEN <<>>
    ELSE <<"-J" \o items[1][1] \o "=" \o items[1][2]>> \o PropertyTokens(Tail(items))

\* "if properties:" is false for None and for an empty dict
PropertyFlags(properties) ==
    IF IsNone(properties) \/ properties[1] = <<>> THEN <<>>
    ELSE PropertyTokens(properties[1])

\* variant: the mode is not consulted
ReportRequested_AnyMode(r) == r.generate_report

ReportRequested(r) == r.generate_report /\ r.non_gui

\* variant: the derived log-file name leaves the unique id out
DeriveLogFile_NoId(f, stem, d) ==
    IF IsNone(f.log_file)
    THEN [f EXCEPT !.unique_id = Some(generate_unique_id(d)),
                   !.drawn = Some(d),
                   !.uid_calls = @ + 1,
                   !.clock = d.now,
                   !.log_file = Some(stem \o "_results.jtl")]
    ELSE f

\* A frame holds the locals the report branch reads and writes.
\* if log_file is None: unique_id = generate_unique_id(); log_file = ...
DeriveLogFile(f, stem, d) ==
    IF IsNone(f.log_file)
    THEN [f EXCEPT !.unique_id = Some(generate_unique_id(d)),
                   !.drawn = Some(d),
                   !.uid_calls = @ + 1,
                   !.clock = d.now,
                   !.log_file = Some(stem \o "_" \o generate_unique_id(d)
                                          \o "_results.jtl")]
    ELSE f

\* variant: a fresh id is generated for the report directory every time
EnsureUniqueId_Always(f, d) ==
    [f EXCEPT !.unique_id = Some(generate_unique_id(d)),
              !.drawn = Some(d),
              !.uid_calls = @ + 1,
              !.clock = d.now]

\* unique_id = unique_id if 'unique_id' in locals() else generate_unique_id()
EnsureUniqueId(f, d) ==
    IF ~IsNone(f.unique_id) THEN f
    ELSE [f EXCEPT !.unique_id = Some(generate_unique_id(d)),
                   !.drawn = Some(d),
                   !.uid_calls = @ + 1,
                   !.clock = d.now]

\* variant: a caller-supplied directory is used as it is
DeriveReportDir_Verbatim(f, stem) ==
    IF ~IsNone(f.report_output_dir) /\ f.report_output_dir[1] # ""
    THEN f
    ELSE [f EXCEPT !.report_output_dir =
                       Some(stem \o "_" \o f.unique_id[1] \o "_report")]

\* "if report_output_dir:" is false for None and for the empty string
DeriveReportDir(f, stem) ==
    IF ~IsNone(f.report_output_dir) /\ f.report_output_dir[1] # ""
    THEN [f EXCEPT !.report_output_dir =
                       Some(f.report_output_dir[1] \o "_" \o f.unique_id[1])]
    ELSE [f EXCEPT !.report_output_dir =
                       Some(stem \o "_" \o f.unique_id[1] \o "_report")]

\* variant: the bare -e flag is not emitted
ReportBlock_NoEnable(f, stem, d1, d2) ==
    LET a == DeriveLogFile(f, stem, d1)
        b == [a EXCEPT !.cmd = @ \o <<"-l", a.log_file[1]>>]
        c == DeriveReportDir(EnsureUniqueId(b, d2), stem)
    IN  [c EXCEPT !.cmd = @ \o <<"-o", c.report_output_dir[1]>>]

\* the whole "if generate_report and non_gui:" block; d1, d2 are what the first
\* and the second call of generate_unique_id would return
ReportBlock(f, stem, d1, d2) ==
    LET a == DeriveLogFile(f, stem, d1)
        b == [a EXCEPT !.cmd = @ \o <<"-l", a.log_file[1], "-e">>]
        c == DeriveReportDir(EnsureUniqueId(b, d2), stem)
    IN  [c EXCEPT !.cmd = @ \o <<"-o", c.report_output_dir[1]>>]

BuildFrame(r, path, d1, d2) ==
    LET f0 == [cmd |-> <<BinaryToken(getenv("JMETER_BIN", "jmeter"))>>
                        \o ModeFlag(r.non_gui) \o <<"-t", path>>
                        \o PropertyFlags(r.properties),
               log_file |-> r.log_file,
               report_output_dir |-> r.report_output_dir,
               unique_id |-> None, drawn |-> None, uid_calls |-> 0,
               clock |-> clock]
    IN  IF ReportRequested(r) THEN ReportBlock(f0, Stem(path), d1, d2) ELSE f0

----------------------------------------------------------------------------
(* run_jmeter: execution and result *)

\* variant: the failure carries the wrong stream
ReturnValue_Stdout(p) ==
    IF p.returncode # 0 THEN "Error executing JMeter test:\n" \o p.stdout
    ELSE p.stdout

\* return f"Error executing JMeter test:\n{result.stderr}" / return result.stdout
ReturnValue(p) ==
    IF p.returncode # 0 THEN "Error executing JMeter test:\n" \o p.stderr
    ELSE p.stdout

ExitState(p) == IF p.returncode # 0 THEN "NonZeroExit" ELSE "ZeroExit"

GuiMessage == "JMeter GUI launched successfully"

\* what the launcher raises when the binary cannot be started
LaunchError(argv) == "[Errno 2] No such file or directory: '" \o argv[1] \o "'"

\* variant: no handler, the exception leaves run_jmeter
ExceptHandler_Reraise(e) ==
    [state |-> "SpawnFailed", result |-> None, escaped |-> TRUE]

\* except Exception as e: return f"Unexpected error: {str(e)}"
\* [state, result, escaped] after exception e raised in a request
ExceptHandler(e) ==
    [state |-> "SpawnFailed", result |-> Some("Unexpected error: " \o e),
     escaped |-> FALSE]

----------------------------------------------------------------------------
(* the state machine *)

Init ==
    /\ env \in Environments
    /\ clock = 0
    /\ state = "Idle"
    /\ req = NoReq
    /\ test_file_path = ""
    /\ cmd = <<>>
    /\ log_file = None
    /\ report_output_dir = None
    /\ unique_id = None
    /\ drawn = None
    /\ uid_calls = 0
    /\ launcher_calls = 0
    /\ spawned = 0
    /\ proc = NoProc
    /\ result = None
    /\ escaped = FALSE
    /\ prev = None

\* what the request that just ended leaves behind on disk, if it named any
Artifacts ==
    IF state \in Built /\ ReportRequested(req)
    THEN Some([test_file_path |-> test_file_path,
               log_supplied |-> ~IsNone(req.log_file),
               dir_supplied |-> ~IsNone(req.report_output_dir),
               unique_id |-> unique_id[1],
               drawn |-> drawn[1],
               log_file |-> log_file[1],
               report_output_dir |-> report_output_dir[1]])
    ELSE None

\* entry of run_jmeter with its six arguments bound
Enter(test_file, non_gui, properties, generate_report, dir, log) ==
    /\ state = "Idle"
    /\ state' = "Validating"
    /\ req' = [test_file |-> test_file, non_gui |-> non_gui,
               properties |-> properties, generate_report |-> generate_report,
               report_output_dir |-> dir, log_file |-> log]
    /\ log_file' = log
    /\ report_output_dir' = dir
    /\ UNCHANGED <<env, clock, test_file_path, cmd, unique_id, drawn,
                   uid_calls, launcher_calls, spawned, proc, result, escaped,
                   prev>>

run_jmeter ==
    \E tf \in TestFiles, ng \in BOOLEAN, ps \in PropertyChoices,
       gr \in BOOLEAN, dir \in ReportDirChoices, log \in LogFileChoices :
        Enter(tf, ng, ps, gr, dir, log)

execute_jmeter_test ==
    \E tf \in TestFiles, gui_mode \in BOOLEAN, ps \in PropertyChoices :
        Enter(tf, ~gui_mode, ps, FALSE, None, None)

execute_jmeter_test_non_gui ==
    \E tf \in TestFiles, ps \in PropertyChoices, gr \in BOOLEAN,
       dir \in ReportDirChoices, log \in LogFileChoices :
        Enter(tf, TRUE, ps, gr, dir, log)

\* lines 41-47
Validate ==
    /\ state = "Validating"
    /\ test_file_path' = Resolve(req.test_file)
    /\ IF ~Exists(test_file_path')
       THEN /\ state' = "Rejected"
            /\ result' = Some(NotFoundMessage(req.test_file))
       ELSE IF ~SuffixOK(test_file_path')
       THEN /\ state' = "Rejected"
            /\ result' = Some(InvalidTypeMessage(req.test_file))
       ELSE /\ state' = "Building"
            /\ result' = result
    /\ UNCHANGED <<env, clock, req, cmd, log_file, report_output_dir, unique_id,
                   drawn, uid_calls, launcher_calls, spawned, proc, escaped, prev>>

\* lines 49-97
Build ==
    /\ state = "Building"
    /\ \E t1 \in clock..MaxClock, u1 \in RandomIds :
       \E t2 \in t1..MaxClock, u2 \in RandomIds :
       \E f \in {BuildFrame(req, test_file_path, [now |-> t1, uuid |-> u1],
                            [now |-> t2, uuid |-> u2])} :
            /\ cmd' = f.cmd
            /\ log_file' = f.log_file
            /\ report_output_dir' = f.report_output_dir
            /\ unique_id' = f.unique_id
            /\ drawn' = f.drawn
            /\ uid_calls' = f.uid_calls
            /\ clock' = f.clock
    /\ state' = "Spawning"
    /\ UNCHANGED <<env, req, test_file_path, launcher_calls, spawned, proc,
                   result, escaped, prev>>

\* subprocess.run(cmd, ...) / subprocess.Popen(cmd) starts the process
Spawn ==
    /\ state = "Spawning"
    /\ launcher_calls' = launcher_calls + 1
    /\ spawned' = spawned + 1
    /\ proc' = [NoProc EXCEPT !.status = "running"]
    /\ IF req.non_gui
       THEN /\ state' = "Awaiting"
            /\ result' = result
       ELSE /\ state' = "Detached"
            /\ result' = Some(GuiMessage)
    /\ UNCHANGED <<env, clock, req, test_file_path, cmd, log_file,
                   report_output_dir, unique_id, drawn, uid_calls, escaped, prev>>

\* the launcher raises (binary missing, permission denied): caught at line 118
SpawnFail ==
    /\ state = "Spawning"
    /\ launcher_calls' = launcher_calls + 1
    /\ LET h == ExceptHandler(LaunchError(cmd))
       IN  /\ state' = h.state
           /\ result' = h.result
           /\ escaped' = h.escaped
    /\ UNCHANGED <<env, clock, req, test_file_path, cmd, log_file,
                   report_output_dir, unique_id, drawn, uid_calls, spawned,
                   proc, prev>>

\* the external process ends (the engine's doing, not the server's)
ProcExit ==
    /\ proc.status = "running"
    /\ \E o \in Outcomes :
        proc' = [status |-> "exited", returncode |-> o.returncode,
                 stdout |-> o.stdout, stderr |-> o.stderr]
    /\ UNCHANGED <<env, clock, state, req, test_file_path, cmd, log_file,
                   report_output_dir, unique_id, drawn, uid_calls,
                   launcher_calls, spawned, result, escaped, prev>>

\* subprocess.run returns once the process has exited: lines 109-112
Return ==
    /\ state = "Awaiting"
    /\ proc.status = "exited"
    /\ state' = ExitState(proc)
    /\ result' = Some(ReturnValue(proc))
    /\ UNCHANGED <<env, clock, req, test_file_path, cmd, log_file,
                   report_output_dir, unique_id, drawn, uid_calls,
                   launcher_calls, spawned, proc, escaped, prev>>

\* the return statement completes: the caller has the value, the locals are
\* gone, and a process started by this request is no longer tracked
Finish(artifacts) ==
    /\ state \in Terminal
    /\ state' = "Idle"
    /\ prev' = artifacts
    /\ req' = NoReq
    /\ test_file_path' = ""
    /\ cmd' = <<>>
    /\ log_file' = None
    /\ report_output_dir' = None
    /\ unique_id' = None
    /\ drawn' = None
    /\ uid_calls' = 0
    /\ launcher_calls' = 0
    /\ spawned' = 0
    /\ proc' = NoProc
    /\ result' = None
    /\ escaped' = FALSE
    /\ UNCHANGED <<env, clock>>

Respond == Finish(Artifacts)

\* the same step when the artifacts of earlier requests are not recorded
\* (prev is a history variable: no step of the server reads it)
RespondUnrecorded == Finish(None)

Next ==
    \/ run_jmeter
    \/ execute_jmeter_test
    \/ execute_jmeter_test_non_gui
    \/ Validate
    \/ Build
    \/ Spawn
    \/ SpawnFail
    \/ ProcExit
    \/ Return
    \/ Respond

Spec == Init /\ [][Next]_vars

\* The server's own steps are taken when enabled; nothing obliges a caller to
\* send a request or the engine process to end.
LifecycleNext ==
    \/ run_jmeter
    \/ execute_jmeter_test
    \/ execute_jmeter_test_non_gui
    \/ Validate
    \/ Build
    \/ Spawn
    \/ SpawnFail
    \/ ProcExit
    \/ Return
    \/ RespondUnrecorded

FairSpec ==
    /\ Init
    /\ [][LifecycleNext]_vars
    /\ WF_vars(Validate)
    /\ WF_vars(Build)
    /\ WF_vars(Spawn \/ SpawnFail)
    /\ WF_vars(Return)

----------------------------------------------------------------------------
(* vocabulary of the properties *)

\* text sub occurs in text s
Contains(s, sub) ==
    \E i \in 1..(Len(s) - Len(sub) + 1) : SubSeq(s, i, i + Len(sub) - 1) = sub

HasToken(argv, tok) == \E i \in 1..Len(argv) : argv[i] = tok

\* the token that follows the first occurrence of flag in argv
TokenAfter(argv, flag) ==
    LET i == CHOOSE k \in 1..Len(argv) :
                 argv[k] = flag /\ \A j \in 1..(k - 1) : argv[j] # flag
    IN  argv[i + 1]

InvalidInput(r, test_file) ==
    r \in {Some(NotFoundMessage(test_file)), Some(InvalidTypeMessage(test_file))}

\* the vector up to the reporting flags: binary, mode flag, -t <path>, -J tokens
IsPlainVector(argv) ==
    \E n \in 0..Len(argv) :
        /\ argv = <<argv[1]>> \o ModeFlag(req.non_gui)
                  \o <<"-t", test_file_path>> \o SubSeq(argv, Len(argv) - n + 1, Len(argv))
        /\ \A i \in (Len(argv) - n + 1)..Len(argv) : SubSeq(argv[i], 1, 2) = "-J"

AwaitingExit == state = "Awaiting" /\ proc.status = "running"

Steps ==
    {<<"Idle", "Validating">>, <<"Validating", "Rejected">>,
     <<"Validating", "Building">>, <<"Building", "Spawning">>,
     <<"Spawning", "SpawnFailed">>, <<"Spawning", "Detached">>,
     <<"Spawning", "Awaiting">>, <<"Awaiting", "NonZeroExit">>,
     <<"Awaiting", "ZeroExit">>}
    \cup {<<t, "Idle">> : t \in Terminal}

\* what every run satisfies whether or not the engine process ever ends
LifecycleSafety ==
    /\ [][state' # state => <<state, state'>> \in Steps]_vars
    /\ [](state \in Terminal => Len(result) = 1 /\ ~escaped)
    /\ [](state \notin Terminal => result = None /\ ~escaped)
    /\ [][(state' = state /\ state \in Terminal) => result' = result]_vars
    /\ [](spawned <= 1 /\ launcher_calls <= 1)
    /\ [](state \in {"SpawnFailed", "Rejected"} => spawned = 0)
    /\ [][(state = "Spawning" /\ state' = "Detached") => proc'.status = "running"]_vars

\* the current request and the one before it both named their artifacts
BothReported == state \in Built /\ ReportRequested(req) /\ prev # None

----------------------------------------------------------------------------
(* properties *)

\* C1: a request whose resolved test-file path does not exist, or whose
\* resolved path has a suffix other than exactly ".jmx", never leaves
\* validation except into Rejected, its result is one of the two invalid-input
\* messages, and the process launcher is never called for it.
C1_InvalidInputNeverLaunches ==
    (state # "Idle" /\ (~Exists(Resolve(req.test_file))
                         \/ Suffix(Resolve(req.test_file)) # ".jmx"))
        => /\ state \in {"Validating", "Rejected"}
           /\ launcher_calls = 0
           /\ spawned = 0
           /\ state = "Rejected" => InvalidInput(result, req.test_file)

C1_Witness ==
    /\ state = "Rejected"
    /\ test_file_path = "/w/PLAN.JMX"
    /\ result = Some(InvalidTypeMessage("/w/PLAN.JMX"))
    /\ launcher_calls = 0

\* C2 (as stated): every request moves only along Validating -> Rejected or
\* Validating -> Building -> Spawning -> (SpawnFailed | Detached | Awaiting ->
\* (NonZeroExit | ZeroExit)), returns one value and raises nothing, starts at
\* most one process, reaches Detached while the process is still running, and
\* eventually reaches a terminal state.
C2_AlwaysTerminates ==
    /\ LifecycleSafety
    /\ (state = "Validating") ~> (state \in Terminal)

\* C2 (amended): the same, except that a batch request reaches its terminal
\* state only once the engine process has exited; until then it stays in
\* Awaiting.
C2_TerminatesOnceProcessExits ==
    /\ LifecycleSafety
    /\ (state = "Validating") ~> (state \in Terminal \/ AwaitingExit)
    /\ (state = "Awaiting" /\ proc.status = "exited") ~> (state \in Terminal)

C2_Witness ==
    /\ state = "Detached"
    /\ proc.status = "running"
    /\ result = Some(GuiMessage)
    /\ spawned = 1

\* C3: in batch mode a result exists only after the process has exited; a
\* non-zero exit status gives NonZeroExit with a result that contains the
\* captured stderr, a zero exit status gives ZeroExit with a result equal to
\* the captured stdout.
C3_BatchResultFollowsExit ==
    /\ (state \in {"NonZeroExit", "ZeroExit"}) => proc.status = "exited"
    /\ (req.non_gui /\ spawned = 1 /\ proc.status = "running") => result = None
    /\ (req.non_gui /\ state \in Terminal /\ proc.status = "exited")
         => IF proc.returncode # 0
            THEN /\ state = "NonZeroExit"
                 /\ Contains(result[1], proc.stderr)
                 /\ SubSeq(result[1], 1, 5) = "Error"
            ELSE /\ state = "ZeroExit"
                 /\ result[1] = proc.stdout

C3_Witness ==
    /\ state = "NonZeroExit"
    /\ proc.returncode = 1
    /\ proc.stdout = "OK"
    /\ proc.stderr = "boom"
    /\ result = Some("Error executing JMeter test:\nboom")

\* C4: the first token of the argument vector is the configured binary: its
\* absolute form when the configured value is a path (has a separator), and
\* the bare name itself, unchanged, when it is a bare name or the default.
C4_BareNameKept ==
    state \in Built =>
        LET bin == getenv("JMETER_BIN", "jmeter")
        IN  cmd[1] = IF Contains(bin, "/")
                     THEN (IF IsAbsolute(bin) THEN bin ELSE Cwd \o "/" \o bin)
                     ELSE bin

\* C5: in GUI mode the argument vector holds none of -l, -e, -o, -n, whatever
\* generate_report, report_output_dir and log_file are.
C5_GuiVectorHasNoBatchFlags ==
    (state \in Built /\ ~req.non_gui)
        => \A tok \in {"-l", "-e", "-o", "-n"} : ~HasToken(cmd, tok)

C5_Witness ==
    /\ state = "Detached"
    /\ req.generate_report
    /\ req.log_file = Some("run.jtl")
    /\ req.report_output_dir = Some("out")

\* C6: -l is in the vector iff -e is, iff generate_report is set in batch
\* mode; then the vector is binary, -n, -t <path>, the -J tokens, followed by
\* exactly -l <log file> -e -o <report dir>; otherwise it has no such tail.
C6_LogFlagOnlyWithReport ==
    state \in Built =>
        /\ HasToken(cmd, "-l") <=> HasToken(cmd, "-e")
        /\ HasToken(cmd, "-l") <=> (req.generate_report /\ req.non_gui)
        /\ IF req.generate_report /\ req.non_gui
           THEN /\ Len(cmd) >= 5
                /\ SubSeq(cmd, Len(cmd) - 4, Len(cmd))
                     = <<"-l", log_file[1], "-e", "-o", report_output_dir[1]>>
                /\ IsPlainVector(SubSeq(cmd, 1, Len(cmd) - 5))
           ELSE IsPlainVector(cmd)

C6_Witness ==
    /\ state \in Built
    /\ req.non_gui
    /\ ~req.generate_report
    /\ req.log_file = Some("run.jtl")
    /\ ~IsNone(req.properties)
    /\ ~HasToken(cmd, "-l")

\* C7: a request calls generate_unique_id once when it emits the reporting
\* flags and never otherwise; a derived log-file name and a derived report
\* directory of one request embed the same unique id.
C7_UniqueIdOncePerRequest ==
    state \in Built =>
        /\ uid_calls <= 1
        /\ uid_calls = 1 <=> HasToken(cmd, "-e")
        /\ uid_calls = 1 <=> ReportRequested(req)
        /\ (ReportRequested(req) /\ IsNone(req.log_file))
             => log_file[1] = Stem(test_file_path) \o "_" \o unique_id[1]
                                \o "_results.jtl"
        /\ (ReportRequested(req) /\ IsNone(req.report_output_dir))
             => report_output_dir[1] = Stem(test_file_path) \o "_" \o unique_id[1]
                                         \o "_report"

C7_Witness ==
    /\ state \in Built
    /\ ReportRequested(req)
    /\ IsNone(req.log_file)
    /\ IsNone(req.report_output_dir)
    /\ uid_calls = 1

\* C8: with reporting in batch mode and a caller-supplied, non-empty
\* report_output_dir D, the token after -o is D, "_" and a non-empty unique
\* id, never D; a caller-supplied log_file is the token after -l unchanged.
C8_SuppliedDirGetsSuffix ==
    (state \in Built /\ ReportRequested(req)) =>
        /\ (~IsNone(req.report_output_dir) /\ req.report_output_dir[1] # "")
             => /\ TokenAfter(cmd, "-o") = req.report_output_dir[1] \o "_" \o unique_id[1]
                /\ Len(unique_id[1]) > 0
                /\ TokenAfter(cmd, "-o") # req.report_output_dir[1]
        /\ ~IsNone(req.log_file) => TokenAfter(cmd, "-l") = req.log_file[1]

C8_Witness ==
    /\ state \in Built
    /\ ReportRequested(req)
    /\ req.report_output_dir = Some("out")
    /\ req.log_file = Some("run.jtl")
    /\ TokenAfter(cmd, "-o") # "out"

\* two successive batch requests for the same test file, reporting, with
\* neither log_file nor report_output_dir supplied
SuccessiveDefaults ==
    /\ BothReported
    /\ IsNone(req.log_file) /\ IsNone(req.report_output_dir)
    /\ ~prev[1].log_supplied /\ ~prev[1].dir_supplied
    /\ prev[1].test_file_path = test_file_path

\* C9 (as stated): two such requests always get different log-file names and
\* different report directories, also within one second.
C9_SuccessiveNamesDiffer ==
    SuccessiveDefaults
        => /\ log_file[1] # prev[1].log_file
           /\ report_output_dir[1] # prev[1].report_output_dir

\* C9 (amended): they get different names whenever their clock readings
\* differ in the second or uuid4 gave them different leading 8 characters.
C9_NamesDifferUnlessSameDraw ==
    (SuccessiveDefaults /\ (drawn[1].now # prev[1].drawn.now
                            \/ drawn[1].uuid # prev[1].drawn.uuid))
        => /\ log_file[1] # prev[1].log_file
           /\ report_output_dir[1] # prev[1].report_output_dir

C9_Witness ==
    /\ SuccessiveDefaults
    /\ drawn[1].now = prev[1].drawn.now
    /\ drawn[1].uuid # prev[1].drawn.uuid
    /\ log_file[1] # prev[1].log_file

\* two reporting requests for different test files with different unique ids
DistinctRequests ==
    /\ BothReported
    /\ prev[1].test_file_path # test_file_path
    /\ prev[1].unique_id # unique_id[1]

\* C10 (as stated): two such requests never share a -l log-file name nor a
\* -o report directory, whatever log_file and report_output_dir they supplied.
C10_ArtifactsNeverCollide ==
    DistinctRequests
        => /\ TokenAfter(cmd, "-l") # prev[1].log_file
           /\ TokenAfter(cmd, "-o") # prev[1].report_output_dir

\* C10 (amended): two such requests never share a -o report directory, and
\* never share a -l log-file name when neither supplied log_file.
C10_DerivedArtifactsNeverCollide ==
    DistinctRequests
        => /\ TokenAfter(cmd, "-o") # prev[1].report_output_dir
           /\ (IsNone(req.log_file) /\ ~prev[1].log_supplied)
                => TokenAfter(cmd, "-l") # prev[1].log_file

C10_Witness ==
    /\ DistinctRequests
    /\ req.report_output_dir = Some("out")
    /\ prev[1].dir_supplied
    /\ Stem(prev[1].test_file_path) = Stem(test_file_path)
    /\ TokenAfter(cmd, "-o") # prev[1].report_output_dir

====
